---- MODULE Spec2Model ----
(***************************************************************************)
(* Model of src/build.js, the static site generator for digital cards.     *)
(*                                                                         *)
(* JavaScript values are tagged records: [t |-> "undefined"],              *)
(* [t |-> "null"], [t |-> "string", v |-> "..."], [t |-> "number", ...],   *)
(* [t |-> "boolean", ...], and objects [t |-> "object", field |-> ...].    *)
(* Results of the functions are plain TLA+ strings, built with \o the way  *)
(* the template literals of the source build them.  A function that can    *)
(* throw returns Ok(v) or Throw(e).                                        *)
(***************************************************************************)
EXTENDS Integers, Sequences, FiniteSets, TLC

VARIABLES
  pc,         \* position of the process: module load, build(), exit
  env,        \* process.env.EDGE_FUNCTION_URL
  response,   \* what fetch(EDGE_FUNCTION_URL) resolved to
  payload,    \* what response.json() resolved to
  idx,        \* number of elements of cards the for-of loop has consumed
  generated,  \* build's counter
  errors,     \* build's counter
  files,      \* names of the files written under dist/
  exitCode,   \* process exit code, -1 while the process runs
  call,       \* the function call under way or last made
  ret         \* what that call returned or threw

vars == <<pc, env, response, payload, idx, generated, errors, files, exitCode, call, ret>>

----------------------------------------------------------------------------
(* JavaScript values *)

Undefined == [t |-> "undefined"]
Null == [t |-> "null"]
Str(s) == [t |-> "string", v |-> s]
Num(n) == [t |-> "number", v |-> n]
Bool(b) == [t |-> "boolean", v |-> b]
Obj(r) == [t |-> "object"] @@ r
Arr(s) == [t |-> "array", v |-> s]

\* ToBoolean: what `!x`, `x || y` and `if (x)` test
Truthy(x) ==
  CASE x.t = "undefined" -> FALSE
    [] x.t = "null" -> FALSE
    [] x.t = "string" -> x.v # ""
    [] x.t = "number" -> x.v # 0
    [] x.t = "boolean" -> x.v
    [] OTHER -> TRUE

\* a || b
Or(a, b) == IF Truthy(a) THEN a ELSE b

\* o?.f
Get(o, f) == IF o.t = "object" /\ f \in DOMAIN o THEN o[f] ELSE Undefined

\* `${x}` of a string, an integer or undefined
ToStr(x) ==
  CASE x.t = "string" -> x.v
    [] x.t = "number" -> ToString(x.v)
    [] x.t = "boolean" -> IF x.v THEN "true" ELSE "false"
    [] x.t = "null" -> "null"
    [] OTHER -> "undefined"

Ok(v) == [ok |-> TRUE, v |-> v]
Throw(e) == [ok |-> FALSE, err |-> e]

----------------------------------------------------------------------------
(* String.prototype methods *)

CharAt(s, i) == SubSeq(s, i, i)

StartsWith(s, p) == Len(s) >= Len(p) /\ SubSeq(s, 1, Len(p)) = p

EndsWith(s, p) == Len(s) >= Len(p) /\ SubSeq(s, Len(s) - Len(p) + 1, Len(s)) = p

Includes(s, p) == \E i \in 1..(Len(s) - Len(p) + 1) : SubSeq(s, i, i + Len(p) - 1) = p

WhiteSpace == {" ", "\t", "\n", "\r"}

RECURSIVE TrimStart(_)
TrimStart(s) == IF s # "" /\ CharAt(s, 1) \in WhiteSpace THEN TrimStart(Tail(s)) ELSE s

RECURSIVE TrimEnd(_)
TrimEnd(s) ==
  IF s # "" /\ CharAt(s, Len(s)) \in WhiteSpace THEN TrimEnd(SubSeq(s, 1, Len(s) - 1)) ELSE s

Trim(s) == TrimEnd(TrimStart(s))

\* the replacement patterns of String.prototype.replace: $$ and $&
RECURSIVE ExpandReplacement(_, _)
ExpandReplacement(rep, matched) ==
  IF rep = "" THEN ""
  ELSE IF StartsWith(rep, "$$") THEN "$" \o ExpandReplacement(SubSeq(rep, 3, Len(rep)), matched)
  ELSE IF StartsWith(rep, "$&") THEN matched \o ExpandReplacement(SubSeq(rep, 3, Len(rep)), matched)
  ELSE CharAt(rep, 1) \o ExpandReplacement(Tail(rep), matched)

\* s.replace(new RegExp(pat, 'g'), rep) for a pattern without metacharacters
RECURSIVE ReplaceAll(_, _, _)
ReplaceAll(s, pat, rep) ==
  IF s = "" \/ pat = "" THEN s
  ELSE IF StartsWith(s, pat)
       THEN ExpandReplacement(rep, pat) \o ReplaceAll(SubSeq(s, Len(pat) + 1, Len(s)), pat, rep)
       ELSE CharAt(s, 1) \o ReplaceAll(Tail(s), pat, rep)

\* s.replace(pat, rep) with a string pattern: the first occurrence only
RECURSIVE ReplaceFirst(_, _, _)
ReplaceFirst(s, pat, rep) ==
  IF s = "" THEN s
  ELSE IF StartsWith(s, pat) THEN ExpandReplacement(rep, pat) \o SubSeq(s, Len(pat) + 1, Len(s))
  ELSE CharAt(s, 1) \o ReplaceFirst(Tail(s), pat, rep)

RECURSIVE Join(_, _)
Join(seq, sep) ==
  IF seq = <<>> THEN ""
  ELSE IF Len(seq) = 1 THEN seq[1]
  ELSE seq[1] \o sep \o Join(Tail(seq), sep)

----------------------------------------------------------------------------
APP_URL == "https://app.supremetech.contact"

escapeChar(c) ==
  CASE c = "&" -> "&amp;"
    [] c = "<" -> "&lt;"
    [] c = ">" -> "&gt;"
    [] c = "\"" -> "&quot;"
    [] c = "'" -> "&#039;"
    [] OTHER -> c

RECURSIVE escapeString(_)
escapeString(s) == IF s = "" THEN "" ELSE escapeChar(CharAt(s, 1)) \o escapeString(Tail(s))

escapeHtml(str) == IF ~Truthy(str) THEN "" ELSE escapeString(ToStr(str))

\* variables is Object.entries(variables): a sequence of <<key, value>>
RECURSIVE applyEntries(_, _)
applyEntries(result, entries) ==
  IF entries = <<>> THEN result
  ELSE applyEntries(
         ReplaceAll(result, "{{" \o entries[1][1] \o "}}", ToStr(Or(entries[1][2], Str("")))),
         Tail(entries))

applyTemplate(template, variables) ==
  IF ~Truthy(template) THEN "" ELSE Trim(applyEntries(template.v, variables))

getBorderRadius(radius) ==
  IF ~Truthy(radius) \/ radius = Str("md") THEN "8px"
  ELSE IF radius = Str("none") THEN "0"
  ELSE IF radius = Str("sm") THEN "4px"
  ELSE IF radius = Str("lg") THEN "12px"
  ELSE IF radius = Str("xl") THEN "16px"
  ELSE IF radius = Str("full") THEN "9999px"
  ELSE "8px"

Digits == {"0", "1", "2", "3", "4", "5", "6", "7", "8", "9"}

DigitVal(c) ==
  CASE c = "0" -> 0 [] c = "1" -> 1 [] c = "2" -> 2 [] c = "3" -> 3 [] c = "4" -> 4
    [] c = "5" -> 5 [] c = "6" -> 6 [] c = "7" -> 7 [] c = "8" -> 8 [] c = "9" -> 9

\* the value of the longest prefix of decimal digits of s, given the value so far
RECURSIVE leadingDigits(_, _)
leadingDigits(s, acc) ==
  IF s # "" /\ CharAt(s, 1) \in Digits
  THEN leadingDigits(Tail(s), 10 * acc + DigitVal(CharAt(s, 1)))
  ELSE acc

HexDigits == Digits \cup {"a", "b", "c", "d", "e", "f", "A", "B", "C", "D", "E", "F"}

HexVal(c) ==
  IF c \in Digits THEN DigitVal(c)
  ELSE CASE c \in {"a", "A"} -> 10 [] c \in {"b", "B"} -> 11 [] c \in {"c", "C"} -> 12
         [] c \in {"d", "D"} -> 13 [] c \in {"e", "E"} -> 14 [] c \in {"f", "F"} -> 15

\* the value of the longest prefix of hexadecimal digits of s, given the value so far
RECURSIVE leadingHexDigits(_, _)
leadingHexDigits(s, acc) ==
  IF s # "" /\ CharAt(s, 1) \in HexDigits
  THEN leadingHexDigits(Tail(s), 16 * acc + HexVal(CharAt(s, 1)))
  ELSE acc

\* parseInt(s) of a string, no radix given: leading white space, a sign, then
\* 0x or 0X and hexadecimal digits, or decimal digits; NaN when no digit follows
parseInt(s) ==
  LET t == TrimStart(s)
      neg == t # "" /\ CharAt(t, 1) = "-"
      u == IF t # "" /\ CharAt(t, 1) \in {"-", "+"} THEN Tail(t) ELSE t
      hex == Len(u) >= 2 /\ SubSeq(u, 1, 2) \in {"0x", "0X"}
      h == IF hex THEN SubSeq(u, 3, Len(u)) ELSE ""
  IN IF hex
     THEN IF h = "" \/ CharAt(h, 1) \notin HexDigits THEN [nan |-> TRUE, v |-> 0]
          ELSE [nan |-> FALSE,
                v |-> IF neg THEN 0 - leadingHexDigits(h, 0) ELSE leadingHexDigits(h, 0)]
     ELSE IF u = "" \/ CharAt(u, 1) \notin Digits THEN [nan |-> TRUE, v |-> 0]
     ELSE [nan |-> FALSE, v |-> IF neg THEN 0 - leadingDigits(u, 0) ELSE leadingDigits(u, 0)]

sizes ==
  [xs |-> "12px", sm |-> "14px", md |-> "16px", lg |-> "18px", xl |-> "20px"]
    @@ ("2xl" :> "24px") @@ ("3xl" :> "32px")

\* the properties the object literal sizes inherits from Object.prototype, each
\* with the text its value has when it is put into a string
inherited ==
  [constructor |-> "function Object() { [native code] }",
   toString |-> "function toString() { [native code] }",
   toLocaleString |-> "function toLocaleString() { [native code] }",
   valueOf |-> "function valueOf() { [native code] }",
   hasOwnProperty |-> "function hasOwnProperty() { [native code] }",
   isPrototypeOf |-> "function isPrototypeOf() { [native code] }",
   propertyIsEnumerable |-> "function propertyIsEnumerable() { [native code] }",
   __defineGetter__ |-> "function __defineGetter__() { [native code] }",
   __defineSetter__ |-> "function __defineSetter__() { [native code] }",
   __lookupGetter__ |-> "function __lookupGetter__() { [native code] }",
   __lookupSetter__ |-> "function __lookupSetter__() { [native code] }",
   __proto__ |-> "[object Object]"]

\* the value returned is a string, but for a size that names an inherited
\* property of sizes: that property is returned, given here as its text
parseFontSize(size) ==
  IF ~Truthy(size) THEN Ok("16px")
  ELSE IF size.t # "string" THEN Throw("TypeError: size.endsWith is not a function")
  ELSE IF EndsWith(size.v, "px") THEN Ok(size.v)
  ELSE IF size.v \in DOMAIN sizes THEN Ok(sizes[size.v])
  ELSE IF size.v \in DOMAIN inherited THEN Ok(inherited[size.v])
  ELSE LET n == parseInt(size.v)
       IN Ok(ToString(IF n.nan \/ n.v = 0 THEN 16 ELSE n.v) \o "px")

iconSizes == [sm |-> 16, md |-> 20, lg |-> 24, xl |-> 32]

getIconSize(size) ==
  IF size.t = "string" /\ size.v \in DOMAIN iconSizes THEN iconSizes[size.v] ELSE 20

----------------------------------------------------------------------------
(* Number formatting of the two non-integer expressions of renderElement *)

TwoDigits(n) == IF n < 10 THEN "0" \o ToString(n) ELSE ToString(n)

\* `${n / 100}` for an integer n >= 0
Hundredths(n) ==
  LET whole == n \div 100
      frac == n % 100
  IN IF frac = 0 THEN ToString(whole)
     ELSE IF frac % 10 = 0 THEN ToString(whole) \o "." \o ToString(frac \div 10)
     ELSE ToString(whole) \o "." \o TwoDigits(frac)

\* `${n * 0.35}` for an integer n >= 0; exact for the heights the model draws
\* (40 and 80; other heights can carry an IEEE rounding tail)
Times035(n) == Hundredths(n * 35)

\* element.opacity !== undefined ? element.opacity / 100 : dflt
opacityOf(element, dflt) ==
  LET o == Get(element, "opacity")
  IN IF o.t = "undefined" THEN dflt
     ELSE IF o.t = "number" THEN Hundredths(o.v)
     ELSE IF o.t = "null" THEN "0"
     ELSE "NaN"

----------------------------------------------------------------------------
\* the SVG bodies are abbreviated to the icon's name; the opening tag, which
\* getIcon rewrites, is the source's
svgStroke(name) ==
  "<svg viewBox=\"0 0 24 24\" fill=\"none\" stroke=\"currentColor\" stroke-width=\"2\"><path d=\""
    \o name \o "\"/></svg>"

svgFill(name) == "<svg viewBox=\"0 0 24 24\" fill=\"currentColor\"><path d=\"" \o name \o "\"/></svg>"

ICONS ==
  [phone |-> svgStroke("phone"), mail |-> svgStroke("mail"), globe |-> svgStroke("globe"),
   download |-> svgStroke("download"), message |-> svgStroke("message"),
   linkedin |-> svgFill("linkedin"), twitter |-> svgFill("twitter"),
   instagram |-> svgStroke("instagram"), facebook |-> svgFill("facebook"),
   youtube |-> svgFill("youtube"), github |-> svgFill("github"), share |-> svgStroke("share"),
   calendar |-> svgStroke("calendar"), link |-> svgStroke("link"), tiktok |-> svgFill("tiktok")]

getIcon(iconName, size) ==
  LET svg == IF iconName.t = "string" /\ iconName.v \in DOMAIN ICONS
             THEN ICONS[iconName.v] ELSE ICONS.link
  IN ReplaceFirst(svg, "<svg",
       "<svg width=\"" \o ToString(size) \o "\" height=\"" \o ToString(size)
         \o "\" style=\"flex-shrink:0;\"")

----------------------------------------------------------------------------
\* a lookup whose default for call and sms asks the profile before the business
actionValueProfileFirst(element, profile, business, socialProfile) ==
  LET source == Or(Get(element, "actionSource"), Str(""))
      actionType == Get(element, "actionType")
  IN IF source \in {Str("profile_phone"), Str("personal_phone"), Str("business_phone")}
       THEN Or(Get(business, "phone"), Get(profile, "phone"))
     ELSE IF source \in {Str("profile_email"), Str("personal_email"),
                         Str("user_login_email"), Str("business_email")}
       THEN Or(Get(profile, "work_email"), Get(profile, "email"))
     ELSE IF source = Str("company_email") THEN Get(business, "email")
     ELSE IF source \in {Str("company_website"), Str("business_website")}
       THEN Get(business, "website")
     ELSE IF source = Str("social_linkedin") THEN Get(socialProfile, "linkedin_url")
     ELSE IF source = Str("social_twitter") THEN Get(socialProfile, "twitter_url")
     ELSE IF source = Str("social_facebook") THEN Get(socialProfile, "facebook_url")
     ELSE IF source = Str("social_instagram") THEN Get(socialProfile, "instagram_url")
     ELSE IF source = Str("social_youtube") THEN Get(socialProfile, "youtube_url")
     ELSE IF source = Str("social_github") THEN Get(socialProfile, "github_url")
     ELSE IF source = Str("custom") THEN Get(element, "customValue")
     ELSE IF actionType = Str("call") \/ actionType = Str("sms")
       THEN Or(Get(profile, "phone"), Get(business, "phone"))
     ELSE IF actionType = Str("email") THEN Get(profile, "email")
     ELSE IF actionType = Str("website") THEN Get(business, "website")
     ELSE Get(element, "customValue")

\* the value lookup of getActionHref: the first switch
actionValue(element, profile, business, socialProfile) ==
  LET source == Or(Get(element, "actionSource"), Str(""))
      actionType == Get(element, "actionType")
  IN IF source \in {Str("profile_phone"), Str("personal_phone"), Str("business_phone")}
       THEN Or(Get(business, "phone"), Get(profile, "phone"))
     ELSE IF source \in {Str("profile_email"), Str("personal_email"),
                         Str("user_login_email"), Str("business_email")}
       THEN Or(Get(profile, "work_email"), Get(profile, "email"))
     ELSE IF source = Str("company_email") THEN Get(business, "email")
     ELSE IF source \in {Str("company_website"), Str("business_website")}
       THEN Get(business, "website")
     ELSE IF source = Str("social_linkedin") THEN Get(socialProfile, "linkedin_url")
     ELSE IF source = Str("social_twitter") THEN Get(socialProfile, "twitter_url")
     ELSE IF source = Str("social_facebook") THEN Get(socialProfile, "facebook_url")
     ELSE IF source = Str("social_instagram") THEN Get(socialProfile, "instagram_url")
     ELSE IF source = Str("social_youtube") THEN Get(socialProfile, "youtube_url")
     ELSE IF source = Str("social_github") THEN Get(socialProfile, "github_url")
     ELSE IF source = Str("custom") THEN Get(element, "customValue")
     ELSE IF actionType = Str("call") \/ actionType = Str("sms")
       THEN Or(Get(business, "phone"), Get(profile, "phone"))
     ELSE IF actionType = Str("email") THEN Get(profile, "email")
     ELSE IF actionType = Str("website") THEN Get(business, "website")
     ELSE Get(element, "customValue")

\* the scheme wrapping of getActionHref: the second switch, value a non-empty string
wrapScheme(actionType, value) ==
  IF actionType = Str("call") THEN "tel:" \o value
  ELSE IF actionType = Str("sms") THEN "sms:" \o value
  ELSE IF actionType = Str("email") THEN "mailto:" \o value
  ELSE IF StartsWith(value, "http") THEN value ELSE "https://" \o value

\* a resolver without the check for a missing value
getActionHrefNoSentinel(element, profile, business, socialProfile) ==
  wrapScheme(Get(element, "actionType"),
             ToStr(actionValue(element, profile, business, socialProfile)))

getActionHref(element, profile, business, socialProfile) ==
  LET value == actionValue(element, profile, business, socialProfile)
  IN IF ~Truthy(value) THEN "#" ELSE wrapScheme(Get(element, "actionType"), value.v)


----------------------------------------------------------------------------
justify(element) ==
  IF Get(element, "textAlign") = Str("center") THEN "center"
  ELSE IF Get(element, "textAlign") = Str("right") THEN "flex-end"
  ELSE "flex-start"

linkTarget(href) ==
  IF StartsWith(href, "http") THEN " target=\"_blank\" rel=\"noopener noreferrer\"" ELSE ""

KnownTypes ==
  {"avatar", "name", "title", "company", "bio", "image", "color_block", "action_button",
   "button_primary", "button_secondary", "social_icon", "divider", "text"}

\* the kinds whose fragment interpolates parseFontSize(element.fontSize)
FontSizeTypes ==
  {"name", "title", "company", "bio", "action_button", "button_primary", "button_secondary", "text"}

\* a default case that rejects the element
defaultThrows == Throw("Error: unknown element type")

\* default: return ''
defaultFragment == Ok("")

\* const baseStyle = `position:absolute;...`
baseStyleOf(element) ==
  "position:absolute;left:" \o ToStr(Get(element, "x")) \o "px;top:"
    \o ToStr(Get(element, "y")) \o "px;width:" \o ToStr(Get(element, "width"))
    \o "px;height:" \o ToStr(Get(element, "height")) \o "px;z-index:"
    \o ToStr(Or(Get(element, "zIndex"), Num(0))) \o ";"

\* the switch of renderElement, given baseStyle, the result fs of
\* parseFontSize(element.fontSize) and the href of getActionHref for the
\* kinds that use them: Ok(fragment), or Throw when parseFontSize throws
renderKind(element, data, baseStyle, fs, href) ==
  LET business == data.business
      colorScheme == data.colorScheme
      type == Get(element, "type")
      textColor == ToStr(Or(Get(element, "textColor"), Get(colorScheme, "text")))
  IN
  IF type.t # "string" \/ type.v \notin KnownTypes THEN defaultFragment
  ELSE IF type.v \in FontSizeTypes /\ ~fs.ok THEN fs
  ELSE IF type.v = "avatar" THEN
    LET radius == getBorderRadius(Or(Get(element, "borderRadius"), Str("full")))
        bw == Get(element, "borderWidth")
        borderStyle ==
          IF bw.t = "number" /\ bw.v > 0
          THEN "border:" \o ToStr(bw) \o "px solid "
                 \o ToStr(Or(Get(element, "borderColor"), Str("transparent"))) \o ";"
          ELSE ""
    IN IF Truthy(data.avatarUrl)
       THEN Ok("<div style=\"" \o baseStyle \o borderStyle \o "border-radius:" \o radius
                 \o ";overflow:hidden;background:" \o ToStr(Get(colorScheme, "primary"))
                 \o ";\"><img src=\"" \o escapeHtml(data.avatarUrl) \o "\" alt=\""
                 \o escapeHtml(data.fullName)
                 \o "\" style=\"width:100%;height:100%;object-fit:cover;\"></div>")
       ELSE Ok("<div style=\"" \o baseStyle \o borderStyle \o "border-radius:" \o radius
                 \o ";overflow:hidden;background:" \o ToStr(Get(colorScheme, "primary"))
                 \o ";display:flex;align-items:center;justify-content:center;\">"
                 \o "<span style=\"color:#fff;font-size:"
                 \o Times035(Or(Get(element, "height"), Num(80)).v)
                 \o "px;font-weight:bold;\">" \o escapeHtml(data.initials) \o "</span></div>")
  ELSE IF type.v = "name" THEN
    Ok("<div style=\"" \o baseStyle \o "color:" \o textColor \o ";font-weight:"
         \o ToStr(Or(Get(element, "fontWeight"), Str("bold")))
         \o ";display:flex;align-items:center;justify-content:" \o justify(element)
         \o ";overflow:hidden;\"><span style=\"font-size:" \o fs.v
         \o ";white-space:nowrap;\">" \o escapeHtml(data.fullName) \o "</span></div>")
  ELSE IF type.v = "title" THEN
    Ok("<div style=\"" \o baseStyle \o "color:" \o textColor \o ";font-weight:"
         \o ToStr(Or(Get(element, "fontWeight"), Str("normal")))
         \o ";opacity:0.85;display:flex;align-items:center;justify-content:" \o justify(element)
         \o ";overflow:hidden;\"><span style=\"font-size:" \o fs.v
         \o ";white-space:nowrap;\">" \o escapeHtml(Or(data.title, Str(""))) \o "</span></div>")
  ELSE IF type.v = "company" THEN
    Ok("<div style=\"" \o baseStyle \o "color:" \o textColor
         \o ";font-weight:500;opacity:0.75;display:flex;align-items:center;justify-content:"
         \o justify(element) \o ";overflow:hidden;\"><span style=\"font-size:" \o fs.v
         \o ";white-space:nowrap;\">" \o escapeHtml(data.companyName) \o "</span></div>")
  ELSE IF type.v = "bio" THEN
    Ok("<div style=\"" \o baseStyle \o "color:" \o textColor \o ";font-size:" \o fs.v
         \o ";opacity:0.8;padding:8px;line-height:1.4;overflow:hidden;white-space:pre-wrap;"
         \o "text-align:" \o ToStr(Or(Get(element, "textAlign"), Str("center"))) \o ";\">"
         \o escapeHtml(Or(data.bio, Str(""))) \o "</div>")
  ELSE IF type.v = "image" THEN
    LET id == Get(element, "id")
        isCompanyLogo ==
          id.t = "string" /\ (Includes(id.v, "company_logo") \/ Includes(id.v, "company_full_logo"))
        imageUrl ==
          IF isCompanyLogo
          THEN Or(Or(Or(Get(business, "logo_full_url"), Get(business, "logo_icon_url")),
                     Get(business, "logo_url")), Get(element, "imageUrl"))
          ELSE Get(element, "imageUrl")
        radius == getBorderRadius(Get(element, "borderRadius"))
    IN IF ~Truthy(imageUrl) THEN Ok("")
       ELSE Ok("<div style=\"" \o baseStyle \o "border-radius:" \o radius
                 \o ";overflow:hidden;display:flex;align-items:center;justify-content:center;"
                 \o "opacity:" \o opacityOf(element, "1") \o ";\"><img src=\""
                 \o escapeHtml(imageUrl)
                 \o "\" alt=\"\" style=\"width:100%;height:100%;object-fit:contain;border-radius:"
                 \o radius \o ";\"></div>")
  ELSE IF type.v = "color_block" THEN
    Ok("<div style=\"" \o baseStyle \o "background:"
         \o ToStr(Or(Get(element, "bgColor"), Get(colorScheme, "secondary")))
         \o ";border-radius:" \o getBorderRadius(Get(element, "borderRadius"))
         \o ";opacity:" \o opacityOf(element, "1") \o ";\"></div>")
  ELSE IF type.v = "action_button" THEN
    LET iconOnly == Truthy(Get(element, "iconOnly"))
        iconHtml ==
          IF Truthy(Get(element, "icon"))
          THEN getIcon(Get(element, "icon"), getIconSize(Get(element, "iconSize"))) ELSE ""
    IN Ok("<a href=\"" \o escapeHtml(Str(href)) \o "\"" \o linkTarget(href) \o " style=\""
            \o baseStyle \o "background:"
            \o ToStr(Or(Get(element, "bgColor"), Get(colorScheme, "secondary")))
            \o ";color:" \o ToStr(Or(Get(element, "textColor"), Str("#ffffff")))
            \o ";border-radius:" \o getBorderRadius(Get(element, "borderRadius"))
            \o ";display:flex;align-items:center;justify-content:center;gap:"
            \o (IF iconOnly THEN "0" ELSE "8")
            \o "px;text-decoration:none;font-size:" \o fs.v \o ";font-weight:500;\">" \o iconHtml
            \o (IF ~iconOnly /\ Truthy(Get(element, "label"))
                THEN "<span>" \o escapeHtml(Get(element, "label")) \o "</span>" ELSE "")
            \o "</a>")
  ELSE IF type.v \in {"button_primary", "button_secondary"} THEN
    LET isPrimary == type.v = "button_primary"
        iconHtml ==
          IF Truthy(Get(element, "icon"))
          THEN getIcon(Get(element, "icon"), getIconSize(Get(element, "iconSize"))) ELSE ""
    IN Ok("<a href=\"" \o escapeHtml(Str(href)) \o "\"" \o linkTarget(href) \o " style=\""
            \o baseStyle \o "background:"
            \o ToStr(Or(Get(element, "bgColor"),
                        IF isPrimary THEN Get(colorScheme, "primary")
                        ELSE Get(colorScheme, "secondary")))
            \o ";color:" \o ToStr(Or(Get(element, "textColor"), Str("#ffffff")))
            \o ";border-radius:" \o getBorderRadius(Get(element, "borderRadius"))
            \o ";display:flex;align-items:center;justify-content:center;gap:8px;"
            \o "text-decoration:none;font-size:" \o fs.v \o ";font-weight:500;\">" \o iconHtml
            \o (IF Truthy(Get(element, "label"))
                THEN "<span>" \o escapeHtml(Get(element, "label")) \o "</span>" ELSE "")
            \o "</a>")
  ELSE IF type.v = "social_icon" THEN
    Ok("<a href=\"" \o escapeHtml(Str(href)) \o "\"" \o linkTarget(href) \o " style=\""
         \o baseStyle \o "background:" \o ToStr(Or(Get(element, "bgColor"), Str("transparent")))
         \o ";color:" \o ToStr(Or(Get(element, "iconColor"), Get(colorScheme, "primary")))
         \o ";border-radius:"
         \o getBorderRadius(Or(Get(element, "borderRadius"), Str("full")))
         \o ";display:flex;align-items:center;justify-content:center;text-decoration:none;\">"
         \o getIcon(Or(Get(element, "platform"), Str("link")),
                    getIconSize(Get(element, "iconSize")))
         \o "</a>")
  ELSE IF type.v = "divider" THEN
    Ok("<div style=\"" \o baseStyle \o "background:"
         \o ToStr(Or(Get(element, "color"), Get(colorScheme, "text")))
         \o ";opacity:" \o opacityOf(element, "0.2") \o ";\"></div>")
  ELSE
    Ok("<div style=\"" \o baseStyle \o "color:" \o textColor \o ";font-size:" \o fs.v
         \o ";text-align:" \o ToStr(Or(Get(element, "textAlign"), Str("left")))
         \o ";overflow:hidden;\">" \o escapeHtml(Or(Get(element, "customValue"), Str("")))
         \o "</div>")

renderElement(element, data) ==
  renderKind(element, data, baseStyleOf(element), parseFontSize(Get(element, "fontSize")),
             getActionHref(element, data.profile, data.business, data.socialProfile))


----------------------------------------------------------------------------
Lower == "abcdefghijklmnopqrstuvwxyz"
Upper == "ABCDEFGHIJKLMNOPQRSTUVWXYZ"

upperChar(c) ==
  IF \E i \in 1..26 : CharAt(Lower, i) = c
  THEN CharAt(Upper, CHOOSE i \in 1..26 : CharAt(Lower, i) = c)
  ELSE c

RECURSIVE toUpperCase(_)
toUpperCase(s) == IF s = "" THEN "" ELSE upperChar(CharAt(s, 1)) \o toUpperCase(Tail(s))

\* x?.[0] of a string or an absent value
firstChar(x) == IF x.t = "string" /\ x.v # "" THEN Str(CharAt(x.v, 1)) ELSE Undefined

\* a filter that keeps only the elements marked visible
isVisibleStrict(el) == Get(el, "isVisible") = Bool(TRUE)

\* el => el.isVisible !== false
isVisible(el) == Get(el, "isVisible") # Bool(FALSE)

\* elements.filter(el => el.isVisible !== false), as the indices kept;
\* the elements are objects
visible(elements) ==
  SelectSeq([i \in 1..Len(elements) |-> i], LAMBDA i : isVisible(elements[i]))

\* a.zIndex || 0
zKey(el) == Or(Get(el, "zIndex"), Num(0)).v

\* a comparator that sorts by descending zIndex
compareZDescending(a, b) == zKey(b) - zKey(a)

\* (a, b) => (a.zIndex || 0) - (b.zIndex || 0)
compareZ(a, b) == zKey(a) - zKey(b)

\* one step of the stable sort: i goes behind every index whose key is not greater
RECURSIVE insertByZ(_, _, _)
insertByZ(elements, sorted, i) ==
  IF sorted = <<>> THEN <<i>>
  ELSE IF compareZ(elements[sorted[Len(sorted)]], elements[i]) <= 0 THEN Append(sorted, i)
  ELSE Append(insertByZ(elements, SubSeq(sorted, 1, Len(sorted) - 1), i), sorted[Len(sorted)])

\* .sort((a, b) => (a.zIndex || 0) - (b.zIndex || 0)): Array.prototype.sort is stable
RECURSIVE sortByZ(_, _)
sortByZ(elements, idxs) ==
  IF idxs = <<>> THEN <<>>
  ELSE insertByZ(elements, sortByZ(elements, SubSeq(idxs, 1, Len(idxs) - 1)), idxs[Len(idxs)])

\* .map(el => renderElement(el, renderData)) up to the first call that throws:
\* the indices passed to renderElement, the fragments returned, and the error
RECURSIVE mapRender(_, _, _)
mapRender(elements, idxs, data) ==
  IF idxs = <<>> THEN [ok |-> TRUE, err |-> "", passed |-> <<>>, fragments |-> <<>>]
  ELSE LET r == renderElement(elements[idxs[1]], data)
       IN IF ~r.ok THEN [ok |-> FALSE, err |-> r.err, passed |-> <<idxs[1]>>, fragments |-> <<>>]
          ELSE LET rest == mapRender(elements, Tail(idxs), data)
               IN [ok |-> rest.ok, err |-> rest.err, passed |-> <<idxs[1]>> \o rest.passed,
                   fragments |-> <<r.v>> \o rest.fragments]

defaultColorScheme ==
  Obj([primary |-> Str("#3B82F6"), secondary |-> Str("#1E40AF"),
       background |-> Str("#FFFFFF"), text |-> Str("#1F2937")])

\* a full name that is empty when neither part is present
fullNameNoDefault(profile) ==
  LET parts == SelectSeq(<<Get(profile, "first_name"), Get(profile, "last_name")>>, Truthy)
  IN Str(Join([i \in 1..Len(parts) |-> ToStr(parts[i])], " "))

\* [first_name, last_name].filter(Boolean).join(' ') || 'Contact'
fullNameOf(profile) ==
  LET parts == SelectSeq(<<Get(profile, "first_name"), Get(profile, "last_name")>>, Truthy)
  IN Or(Str(Join([i \in 1..Len(parts) |-> ToStr(parts[i])], " ")), Str("Contact"))

initialsOf(profile) ==
  Or(Str(toUpperCase(ToStr(Or(firstChar(Get(profile, "first_name")), Str("")))
                       \o ToStr(Or(firstChar(Get(profile, "last_name")), Str(""))))),
     Str("U"))

\* a chain that prefers the custom profile photo
ogImagePhotoFirst(card, profile, business) ==
  Or(Or(Or(Or(Get(card, "og_image_url"), Get(Get(card, "custom_fields"), "profile_photo_url")),
           Get(profile, "avatar_url")), Get(business, "logo_url")),
     Str(APP_URL \o "/og-free-card.png"))

ogImageOf(card, profile, business) ==
  Or(Or(Or(Get(card, "og_image_url"), Get(profile, "avatar_url")), Get(business, "logo_url")),
     Str(APP_URL \o "/og-free-card.png"))

backgroundStyleOf(template, colorScheme) ==
  IF Get(template, "background_type") = Str("image") /\ Truthy(Get(template, "background_value"))
  THEN "background-image:url(" \o ToStr(Get(template, "background_value"))
         \o ");background-size:cover;background-position:center;"
  ELSE IF Get(template, "background_type") = Str("gradient")
  THEN "background:linear-gradient(135deg, " \o ToStr(Get(colorScheme, "primary")) \o ", "
         \o ToStr(Get(colorScheme, "secondary")) \o ");"
  ELSE IF Truthy(Get(template, "background_value"))
  THEN "background:" \o ToStr(Get(template, "background_value")) \o ";"
  ELSE "background:" \o ToStr(Get(colorScheme, "background")) \o ";"

\* the renderData record of generateCardHTML
renderDataOf(card, profile, business, socialProfile, colorScheme) ==
  LET customFields == Or(Get(card, "custom_fields"), [t |-> "object"])
  IN [card |-> card, profile |-> profile, business |-> business,
      socialProfile |-> socialProfile, colorScheme |-> colorScheme,
      avatarUrl |-> Or(Get(customFields, "profile_photo_url"), Get(profile, "avatar_url")),
      fullName |-> fullNameOf(profile), initials |-> initialsOf(profile),
      title |-> Or(Or(Get(card, "custom_title"), Get(profile, "job_title")), Str("")),
      bio |-> Or(Get(card, "custom_bio"), Str("")),
      companyName |-> Or(Get(business, "name"), Str(""))]

CANVAS_WIDTH == 390
CANVAS_HEIGHT == 720

\* the result of a call that threw before or while the elements were rendered
Thrown(err, passed) ==
  [ok |-> FALSE, err |-> err, passed |-> passed, fragments |-> <<>>, html |-> [none |-> TRUE]]

\* the values the template literal of the return statement interpolates
documentOf(ogTitle, ogDescription, ogImage, canonicalUrl, companyName, themeColor, business, backgroundStyle, elementsHtml) ==
  [title |-> escapeHtml(Str(ogTitle)),
   description |-> escapeHtml(Str(ogDescription)),
   url |-> canonicalUrl,
   image |-> escapeHtml(ogImage),
   site_name |-> escapeHtml(Or(companyName, Str("Digital Card"))),
   theme_color |-> ToStr(themeColor),
   icon |-> ToStr(Or(Get(business, "logo_icon_url"), Str(APP_URL \o "/pwa-192x192.png"))),
   background |-> backgroundStyle,
   canvas |-> <<CANVAS_WIDTH, CANVAS_HEIGHT>>,
   elementsHtml |-> elementsHtml]

\* the variables of the two applyTemplate calls
templateVariables(profile, business) ==
  << <<"full_name", fullNameOf(profile)>>, <<"job_title", Or(Get(profile, "job_title"), Str(""))>>,
     <<"company_name", Or(Get(business, "name"), Str(""))>> >>

\* lines 203-277, card being an object and elements an array of objects; m is
\* the result of the map over the visible elements in sorted order
assemble(card, profile, business, template, colorScheme, m) ==
  IF ~m.ok THEN Thrown(m.err, m.passed)
  ELSE [ok |-> TRUE, err |-> "", passed |-> m.passed, fragments |-> m.fragments,
        html |->
          documentOf(
            applyTemplate(Or(Get(card, "og_title"), Str("{{full_name}} - Digital Card")),
                          templateVariables(profile, business)),
            applyTemplate(Or(Get(card, "og_description"), Str("{{job_title}} at {{company_name}}")),
                          templateVariables(profile, business)),
            ogImageOf(card, profile, business),
            "https://cards.supremetech.contact/"
              \o ToStr(Or(Get(card, "public_slug"), Get(card, "public_token"))),
            Or(Get(business, "name"), Str("")),
            Or(Or(Get(colorScheme, "primary"), Get(business, "primary_color")), Str("#000000")),
            business,
            backgroundStyleOf(template, colorScheme),
            Join(m.fragments, "\n"))]

\* lines 209 and 221-232, for the parts of a request
renderLayout(card, profile, business, template, socialProfile, colorScheme, elements) ==
  IF elements.t # "array" THEN Thrown("TypeError: elements.filter is not a function", <<>>)
  ELSE IF \E i \in 1..Len(elements.v) : elements.v[i].t \in {"undefined", "null"}
    THEN Thrown("TypeError: Cannot read properties of null (reading 'isVisible')", <<>>)
  ELSE assemble(card, profile, business, template, colorScheme,
                mapRender(elements.v, sortByZ(elements.v, visible(elements.v)),
                          renderDataOf(card, profile, business, socialProfile, colorScheme)))

\* the elements of template.layout_config: layoutConfig.elements || []
layoutElements(template) ==
  Or(Get(Or(Get(template, "layout_config"), [t |-> "object"]), "elements"), Arr(<<>>))

\* a call that sorts layout_config.elements itself, not the array filter() returns
requestSortedInPlace(cardData) ==
  LET elements == layoutElements(Get(cardData, "template"))
  IN IF Get(cardData, "card").t \in {"undefined", "null"} \/ elements.t # "array"
          \/ elements.v = <<>>
       THEN cardData
     ELSE [cardData EXCEPT !.template.layout_config.elements.v =
             LET order == sortByZ(elements.v, [i \in 1..Len(elements.v) |-> i])
             IN [k \in 1..Len(order) |-> elements.v[order[k]]]]

\* the object cardData after the call: no statement of generateCardHTML and of
\* the functions it calls assigns to a property of the request, and sort()
\* reorders the array that filter() returns, not layout_config.elements
requestAfter(cardData) == cardData

\* cardData is an object.  The result carries the document, the indices of the
\* elements passed to renderElement and the fragments returned.
generateCardHTML(cardData) ==
  IF Get(cardData, "card").t \in {"undefined", "null"}
    THEN Thrown("TypeError: Cannot read properties of " \o Get(cardData, "card").t
                  \o " (reading 'og_title')", <<>>)
  ELSE renderLayout(Get(cardData, "card"), Get(cardData, "profile"), Get(cardData, "business"),
                    Get(cardData, "template"), Get(cardData, "socialProfile"),
                    Or(Get(Get(cardData, "template"), "color_scheme"), defaultColorScheme),
                    layoutElements(Get(cardData, "template")))

----------------------------------------------------------------------------
(* The process: module load, build(), exit *)

NoCall == [fn |-> "none"]
NoRet == [none |-> TRUE]
NoResponse == [t |-> "pending"]

MaxCards == 3

slugOf(cardData) == Get(Get(cardData, "card"), "public_slug")

\* the end of the try block: the result r of generateCardHTML is written, or
\* the catch clause counts the error
written(cardData, r) ==
  IF r.ok THEN [outcome |-> "generated", file |-> ToStr(slugOf(cardData)) \o ".html", r |-> r]
  ELSE [outcome |-> "error", file |-> "", r |-> r]

\* a loop body that counts a card without a slug as an error
processCardCountsSkipped(cardData) ==
  IF cardData.t \in {"undefined", "null"} \/ ~Truthy(slugOf(cardData))
    THEN [outcome |-> "error", file |-> "", r |-> NoRet]
  ELSE written(cardData, generateCardHTML(cardData))

\* the body of the loop for one element of cards: what happened, the file
\* written, and the result of generateCardHTML when it was called
processCard(cardData) ==
  IF cardData.t \in {"undefined", "null"}
    THEN [outcome |-> "error", file |-> "", r |-> NoRet]
  ELSE IF ~Truthy(slugOf(cardData)) THEN [outcome |-> "skipped", file |-> "", r |-> NoRet]
  ELSE written(cardData, generateCardHTML(cardData))

\* an iteration that takes every value that is not an array for an empty list
iterateLenient(cards) == IF cards.t = "array" THEN Ok(cards.v) ELSE Ok(<<>>)

\* what `for (const cardData of (cards || []))` iterates: Ok(sequence), or
\* Throw for a truthy value that is not iterable
iterate(cards) ==
  IF ~Truthy(cards) THEN Ok(<<>>)
  ELSE IF cards.t = "array" THEN Ok(cards.v)
  ELSE IF cards.t = "string" THEN Ok([i \in 1..Len(cards.v) |-> Str(CharAt(cards.v, i))])
  ELSE Throw("TypeError: cards is not iterable")

cardList == iterate(Get(payload, "cards")).v

\* lines 12-15 and 323: the module is loaded
Load ==
  /\ pc = "load"
  /\ IF ~Truthy(env)
     THEN pc' = "exited" /\ exitCode' = 1
     ELSE pc' = "fetch" /\ exitCode' = exitCode
  /\ UNCHANGED <<env, response, payload, idx, generated, errors, files, call, ret>>

----------------------------------------------------------------------------
(* The inputs the model draws *)

MaxElems == 3

NoFields == [f \in {} |-> Undefined]

\* the element at position i of a layout: its geometry, and the fields of choice c
elementAt(i, c) ==
  Obj([id |-> Str("el" \o ToString(i)), x |-> Num(10 * i), y |-> Num(20),
       width |-> Num(100), height |-> Num(40)] @@ c)

ZChoices == {NoFields, [zIndex |-> Num(1)], [zIndex |-> Num(-1)]}
VisibleChoices == {NoFields, [isVisible |-> Bool(FALSE)]}

\* the fields an element adds to its geometry: text elements of every stacking
\* order and visibility, elements of an unrecognized or absent kind, a link,
\* and a text element whose fontSize is a JSON number
ElementChoices ==
  {[type |-> Str("name")] @@ z @@ v : z \in ZChoices, v \in VisibleChoices}
    \cup {[type |-> Str("name"), isVisible |-> Bool(TRUE)],
          [type |-> Str("hologram")], [zIndex |-> Num(1)],
          [type |-> Str("action_button"), actionType |-> Str("call"), label |-> Str("Call")],
          [type |-> Str("text"), customValue |-> Str("Hi"), fontSize |-> Num(14)]}

\* the layout of n elements whose fields f chooses
layoutOf(n, f) == Arr([i \in 1..n |-> elementAt(i, f[i])])

templateOf(elements) == Obj([layout_config |-> Obj([elements |-> elements])])

Profiles ==
  {Undefined,
   Obj([first_name |-> Str("jo"), last_name |-> Str("Roe"), job_title |-> Str("CTO"),
        email |-> Str("jo@x.io"), phone |-> Str("555-1234")]),
   Obj([first_name |-> Str("Ann"), avatar_url |-> Str("https://img.x/ann.png?w=1&h=2")])}

Businesses ==
  {Undefined,
   Obj([name |-> Str("Acme"), primary_color |-> Str("#FF0000"), website |-> Str("acme.com")]),
   Obj([name |-> Str("Acme"), logo_url |-> Str("https://img.x/logo.png")]),
   Obj([logo_full_url |-> Str("https://img.x/full.png")]),
   Obj([logo_full_url |-> Str("https://img.x/full.png"),
        logo_url |-> Str("https://img.x/logo.png")])}

Cards ==
  {Undefined,
   Obj([public_slug |-> Str("jo")]),
   Obj([public_slug |-> Str("jo"), og_image_url |-> Str("https://img.x/og.png")]),
   Obj([public_slug |-> Str("jo"),
        custom_fields |-> Obj([profile_photo_url |-> Str("https://img.x/photo.png")])]),
   Obj([public_token |-> Str("tok1"), og_title |-> Str("{{full_name}} at {{company_name}}"),
        og_image_url |-> Str("https://img.x/og.png"),
        custom_fields |-> Obj([profile_photo_url |-> Str("https://img.x/photo.png")])])}

SocialProfiles == {Undefined, Obj([linkedin_url |-> Str("https://linkedin.com/in/jo")])}

\* a layout with one element of each of three kinds, in descending zIndex
sampleLayout ==
  Arr(<<elementAt(1, [type |-> Str("action_button"), actionType |-> Str("email"), zIndex |-> Num(2)]),
        elementAt(2, [type |-> Str("name"), zIndex |-> Num(1)]),
        elementAt(3, [type |-> Str("avatar")])>>)

Templates ==
  {Undefined,
   Obj([layout_config |-> Obj([elements |-> sampleLayout]),
        color_scheme |-> Obj([primary |-> Str("#111111"), secondary |-> Str("#222222"),
                              background |-> Str("#333333"), text |-> Str("#444444")])])}

\* a record with the fields of r whose value is not undefined
present(r) == [f \in {g \in DOMAIN r : r[g].t # "undefined"} |-> r[f]]

\* requests in which any subset of the five sub-records is absent
DataRequests ==
  {Obj(present([card |-> c, profile |-> p, business |-> b, template |-> t, socialProfile |-> s])) :
     c \in Cards, p \in Profiles, b \in Businesses, t \in Templates, s \in SocialProfiles}

\* the request that renders layout l for a fixed card and profile
layoutRequest(l) ==
  Obj([card |-> Obj([public_slug |-> Str("jo")]),
       profile |-> Obj([first_name |-> Str("jo"), phone |-> Str("555-1234")]),
       template |-> templateOf(l)])


----------------------------------------------------------------------------
(* generateCardHTML called on its own *)

idle ==
  /\ env = Undefined
  /\ response = NoResponse
  /\ payload = Undefined
  /\ idx = 0
  /\ generated = 0
  /\ errors = 0
  /\ files = {}
  /\ exitCode = -1

RenderInit ==
  /\ pc = "call"
  /\ \/ \E cd \in DataRequests : call = [fn |-> "generateCardHTML", cardData |-> cd]
     \/ \E n \in 0..MaxElems :
          \E f \in [1..n -> ElementChoices] :
            call = [fn |-> "generateCardHTML", cardData |-> layoutRequest(layoutOf(n, f))]
  /\ ret = NoRet
  /\ idle

CallGenerateCardHTML ==
  /\ pc = "call"
  /\ call.fn = "generateCardHTML"
  /\ ret' = generateCardHTML(call.cardData)
  /\ pc' = "return"
  /\ UNCHANGED <<env, response, payload, idx, generated, errors, files, exitCode, call>>

RenderNext == CallGenerateCardHTML

RenderSpec == RenderInit /\ [][RenderNext]_vars


----------------------------------------------------------------------------
(* Properties of generateCardHTML, under RenderSpec *)

Returned == pc = "return" /\ call.fn = "generateCardHTML"

\* template.layout_config.elements of a request, empty when absent
elementsOf(cardData) ==
  LET e == Get(Get(Get(cardData, "template"), "layout_config"), "elements")
  IN IF e.t = "array" THEN e.v ELSE <<>>

hidden(el) == Get(el, "isVisible") = Bool(FALSE)

\* the stacking order of an element, an absent zIndex counting as 0
zOf(el) == IF Get(el, "zIndex").t = "number" THEN Get(el, "zIndex").v ELSE 0

unknownKind(el) == Get(el, "type").t # "string" \/ Get(el, "type").v \notin KnownTypes

\* the text every fragment of an element carries: its left offset, which
\* differs for every position of a layout
marker(el) == "left:" \o ToStr(Get(el, "x")) \o "px;"

\* the first position of p in s, which includes p
IndexOf(s, p) ==
  CHOOSE i \in 1..(Len(s) - Len(p) + 1) :
    /\ SubSeq(s, i, i + Len(p) - 1) = p
    /\ \A j \in 1..(i - 1) : SubSeq(s, j, j + Len(p) - 1) # p

\* C1: an element whose isVisible is false is never passed to renderElement
\* and the document has no fragment for it; when the call returns, every
\* element whose isVisible is true or absent was passed to renderElement, and
\* the document has the fragment of each one of a recognized kind.
C1_HiddenNeverRendered ==
  Returned =>
    LET els == elementsOf(call.cardData)
    IN /\ \A k \in 1..Len(ret.passed) : ~hidden(els[ret.passed[k]])
       /\ ret.ok =>
            /\ Len(ret.fragments) = Len(ret.passed)
            /\ \A i \in 1..Len(els) :
                 IF hidden(els[i])
                 THEN ~Includes(ret.html.elementsHtml, marker(els[i]))
                 ELSE /\ \E k \in 1..Len(ret.passed) : ret.passed[k] = i
                      /\ ~unknownKind(els[i]) => Includes(ret.html.elementsHtml, marker(els[i]))

C1_Witness ==
  /\ Returned
  /\ ret.ok
  /\ LET els == elementsOf(call.cardData)
     IN /\ \E i \in 1..Len(els) : hidden(els[i]) /\ ~unknownKind(els[i])
        /\ \E i \in 1..Len(els) : "isVisible" \notin DOMAIN els[i] /\ i \in {ret.passed[k] : k \in 1..Len(ret.passed)}
        /\ \E i \in 1..Len(els) : Get(els[i], "isVisible") = Bool(TRUE)

\* C2: the fragments are in the document in non-decreasing zIndex order, an
\* absent zIndex counting as 0, and two visible elements of equal zIndex are
\* in the order of the input list.
C2_StableZOrder ==
  Returned /\ ret.ok =>
    LET els == elementsOf(call.cardData)
        p == ret.passed
    IN \A j, k \in 1..Len(p) :
         j < k =>
           /\ zOf(els[p[j]]) <= zOf(els[p[k]])
           /\ zOf(els[p[j]]) = zOf(els[p[k]]) => p[j] < p[k]
           /\ ret.fragments[j] # "" /\ ret.fragments[k] # "" =>
                IndexOf(ret.html.elementsHtml, marker(els[p[j]]))
                  < IndexOf(ret.html.elementsHtml, marker(els[p[k]]))

C2_Witness ==
  /\ Returned
  /\ ret.ok
  /\ LET els == elementsOf(call.cardData)
         p == ret.passed
     IN /\ Len(p) = 3
        /\ \E j, k \in 1..3 : j < k /\ zOf(els[p[j]]) = zOf(els[p[k]]) /\ ret.fragments[j] # ""
                               /\ ret.fragments[k] # ""
        /\ \E j, k \in 1..3 : j < k /\ p[j] > p[k]
        /\ \E j \in 1..3 : "zIndex" \notin DOMAIN els[p[j]]

\* the request with the elements of unrecognized kind taken out of the layout
withoutUnknown(cardData) ==
  IF elementsOf(cardData) = <<>> THEN cardData
  ELSE [cardData EXCEPT !.template.layout_config.elements.v =
                          SelectSeq(@, LAMBDA el : ~unknownKind(el))]

\* C3: an element of unrecognized kind contributes the empty string, and the
\* other visible elements contribute the fragments they contribute when the
\* unrecognized elements are not in the list.
C3_UnknownKindIsEmpty ==
  Returned =>
    LET els == elementsOf(call.cardData)
        p == ret.passed
        other == generateCardHTML(withoutUnknown(call.cardData))
        known == SelectSeq([k \in 1..Len(p) |-> k], LAMBDA k : ~unknownKind(els[p[k]]))
    IN /\ ret.ok = other.ok
       /\ ret.ok =>
            /\ \A k \in 1..Len(p) : unknownKind(els[p[k]]) => ret.fragments[k] = ""
            /\ [n \in 1..Len(known) |-> ret.fragments[known[n]]] = other.fragments

C3_Witness ==
  /\ Returned
  /\ ret.ok
  /\ LET els == elementsOf(call.cardData)
         p == ret.passed
     IN \E j, k \in 1..Len(p) :
          /\ j < k
          /\ unknownKind(els[p[j]])
          /\ ~unknownKind(els[p[k]])
          /\ ret.fragments[j] = ""
          /\ ret.fragments[k] # ""

\* C4: generateCardHTML returns a document for every request in which any
\* subset of card, profile, business, template and socialProfile is absent.
C4_TotalOverAbsentSubRecords == Returned /\ call.cardData \in DataRequests => ret.ok

firstNonEmpty(candidates, default) ==
  IF \E i \in 1..Len(candidates) : Truthy(candidates[i])
  THEN candidates[CHOOSE i \in 1..Len(candidates) :
                    Truthy(candidates[i]) /\ \A j \in 1..(i - 1) : ~Truthy(candidates[j])]
  ELSE default

\* s without its '#' characters
RECURSIVE stripHash(_)
stripHash(s) ==
  IF s = "" THEN ""
  ELSE IF CharAt(s, 1) = "#" THEN stripHash(Tail(s)) ELSE CharAt(s, 1) \o stripHash(Tail(s))

Letters == {CharAt(Lower, i) : i \in 1..26} \cup {CharAt(Upper, i) : i \in 1..26}

\* the value a mapping gives a name: the empty string when the name is absent
mapped(variables, name) ==
  IF \E i \in 1..Len(variables) : variables[i][1] = name
  THEN ToStr(Or(variables[CHOOSE i \in 1..Len(variables) : variables[i][1] = name][2], Str("")))
  ELSE ""

NameChars == Letters \cup Digits \cup {"_"}

\* the length of the placeholder {{name}} that s begins with, 0 when there is none
placeholderLen(s) ==
  IF StartsWith(s, "{{") /\
     \E n \in 1..(Len(s) - 4) :
       /\ \A j \in 3..(n + 2) : CharAt(s, j) \in NameChars
       /\ SubSeq(s, n + 3, n + 4) = "}}"
  THEN 4 + CHOOSE n \in 1..(Len(s) - 4) :
             /\ \A j \in 3..(n + 2) : CharAt(s, j) \in NameChars
             /\ SubSeq(s, n + 3, n + 4) = "}}"
  ELSE 0

\* s with every placeholder replaced by the value the mapping gives its name
RECURSIVE interpolated(_, _)
interpolated(s, variables) ==
  IF s = "" THEN ""
  ELSE LET n == placeholderLen(s)
       IN IF n = 0 THEN CharAt(s, 1) \o interpolated(Tail(s), variables)
          ELSE mapped(variables, SubSeq(s, 3, n - 2))
                 \o interpolated(SubSeq(s, n + 1, Len(s)), variables)

\* the string of field f of record o, empty when the field is absent or empty
textOf(o, f) == ToStr(Or(Get(o, f), Str("")))

\* first and last name joined by a space and trimmed, empty when neither is present
trimmedName(profile) == Trim(textOf(profile, "first_name") \o " " \o textOf(profile, "last_name"))

\* C11 as stated: the share title is the first applicable of card.og_title,
\* name - job_title, name at company, name, company and "Contact Card", where
\* name is the trimmed first+last name, empty when neither part is present.
\* A card.og_title with placeholders is left out of the statement.
C11_ShareTitleChainOfSix ==
  Returned /\ ret.ok =>
    LET cd == call.cardData
        ogTitle == textOf(Get(cd, "card"), "og_title")
        name == trimmedName(Get(cd, "profile"))
        job == textOf(Get(cd, "profile"), "job_title")
        company == textOf(Get(cd, "business"), "name")
    IN \/ Includes(ogTitle, "{{")
       \/ ret.html.title =
            escapeString(IF ogTitle # "" THEN ogTitle
                         ELSE IF name # "" /\ job # "" THEN name \o " - " \o job
                         ELSE IF name # "" /\ company # "" THEN name \o " at " \o company
                         ELSE IF name # "" THEN name
                         ELSE IF company # "" THEN company
                         ELSE "Contact Card")

\* the name the share title carries: the parts present joined by a space,
\* "Contact" when neither is
titleName(profile) ==
  LET f == textOf(profile, "first_name")
      l == textOf(profile, "last_name")
  IN IF f # "" /\ l # "" THEN f \o " " \o l
     ELSE IF f # "" THEN f
     ELSE IF l # "" THEN l
     ELSE "Contact"

\* C11, amended: the share title is card.og_title, when it is not empty, with
\* its {{full_name}}, {{job_title}} and {{company_name}} placeholders filled
\* in, and otherwise name + " - Digital Card", where name is the first and last
\* name that are present joined by a space and "Contact" when neither is;
\* it is trimmed, and HTML-escaped in the document.
C11_TitleIsOgTitleOrNameDigitalCard ==
  Returned /\ ret.ok =>
    LET cd == call.cardData
        ogTitle == textOf(Get(cd, "card"), "og_title")
        values == << <<"full_name", Str(titleName(Get(cd, "profile")))>>,
                     <<"job_title", Get(Get(cd, "profile"), "job_title")>>,
                     <<"company_name", Get(Get(cd, "business"), "name")>> >>
    IN ret.html.title =
         escapeString(Trim(IF ogTitle # "" THEN interpolated(ogTitle, values)
                           ELSE titleName(Get(cd, "profile")) \o " - Digital Card"))

C11_Witness ==
  /\ Returned
  /\ ret.ok
  /\ LET cd == call.cardData
     IN /\ ~Truthy(Get(Get(cd, "card"), "og_title"))
        /\ trimmedName(Get(cd, "profile")) = ""
        /\ Truthy(Get(Get(cd, "business"), "name"))
        /\ ret.html.title = "Contact - Digital Card"


----------------------------------------------------------------------------
(* getActionHref, and renderElement on the link kinds, called on their own *)

ActionSources ==
  {Undefined} \cup
  {Str(a) : a \in {"profile_phone", "personal_phone", "business_phone", "profile_email",
                   "personal_email", "user_login_email", "business_email", "company_email",
                   "company_website", "business_website", "social_linkedin", "social_twitter",
                   "social_facebook", "social_instagram", "social_youtube", "social_github",
                   "custom", "vcard"}}

ActionTypes == {Undefined, Str("call"), Str("sms"), Str("email"), Str("website"), Str("link")}

CustomValues ==
  {Undefined, Str(""), Str("example.com"), Str("https://x.com"), Str("httpbin.org"),
   Str("ftp://files.x.com")}

ActionElements ==
  {Obj(present([type |-> Str("action_button"), x |-> Num(10), y |-> Num(20), width |-> Num(100),
                height |-> Num(40), actionSource |-> a, actionType |-> t, customValue |-> v])) :
     a \in ActionSources, t \in ActionTypes, v \in CustomValues}

ActionProfiles ==
  {Undefined,
   Obj([phone |-> Str("555-1234"), email |-> Str("jo@x.io"), work_email |-> Str("jo@acme.com")]),
   Obj([email |-> Str("jo@x.io"), phone |-> Str("")])}

ActionBusinesses ==
  {Undefined,
   Obj([phone |-> Str("555-9999"), email |-> Str("hi@acme.com"), website |-> Str("acme.com")]),
   Obj([website |-> Str("https://acme.com")])}

ActionSocialProfiles ==
  {Undefined,
   Obj([linkedin_url |-> Str("https://linkedin.com/in/jo"), twitter_url |-> Str("x.com/jo"),
        github_url |-> Str("")])}

ActionInit ==
  /\ pc = "call"
  /\ call \in
       {[fn |-> "getActionHref", element |-> e, profile |-> p, business |-> b,
         socialProfile |-> sp] :
          e \in ActionElements, p \in ActionProfiles, b \in ActionBusinesses,
          sp \in ActionSocialProfiles}
       \cup
       {[fn |-> "renderElement", element |-> [e EXCEPT !.type = Str(k)], profile |-> p,
         business |-> b, socialProfile |-> sp] :
          e \in ActionElements, k \in {"button_primary", "social_icon"},
          p \in {Undefined}, b \in ActionBusinesses, sp \in ActionSocialProfiles}
  /\ ret = NoRet
  /\ idle

CallGetActionHref ==
  /\ pc = "call"
  /\ call.fn = "getActionHref"
  /\ ret' = getActionHref(call.element, call.profile, call.business, call.socialProfile)
  /\ pc' = "return"
  /\ UNCHANGED <<env, response, payload, idx, generated, errors, files, exitCode, call>>

CallRenderElement ==
  /\ pc = "call"
  /\ call.fn = "renderElement"
  /\ ret' = renderElement(call.element,
                          renderDataOf([t |-> "object"], call.profile, call.business,
                                       call.socialProfile, defaultColorScheme))
  /\ pc' = "return"
  /\ UNCHANGED <<env, response, payload, idx, generated, errors, files, exitCode, call>>

ActionNext == CallGetActionHref \/ CallRenderElement

ActionSpec == ActionInit /\ [][ActionNext]_vars

\* the value the lookup of getActionHref resolves for the call
resolved == actionValue(call.element, call.profile, call.business, call.socialProfile)


\* v begins with a protocol: letters followed by "://"
hasProtocolPrefix(v) ==
  \E i \in 2..(Len(v) - 2) :
    /\ SubSeq(v, i, i + 2) = "://"
    /\ \A j \in 1..(i - 1) : CharAt(v, j) \in Letters

\* C7: for a non-empty resolved value v, getActionHref returns "tel:" + v for
\* call, "sms:" + v for sms, "mailto:" + v for email, and for any other
\* actionType v itself when v has a protocol prefix and "https://" + v otherwise.
C7_SchemeWrapping ==
  pc = "return" /\ call.fn = "getActionHref" /\ Truthy(resolved) =>
    LET v == resolved.v
        actionType == Get(call.element, "actionType")
    IN ret = IF actionType = Str("call") THEN "tel:" \o v
             ELSE IF actionType = Str("sms") THEN "sms:" \o v
             ELSE IF actionType = Str("email") THEN "mailto:" \o v
             ELSE IF hasProtocolPrefix(v) THEN v
             ELSE "https://" \o v

\* C8: when the lookup yields no value, absent or empty, getActionHref returns
\* exactly "#" whatever actionSource and actionType are, and the link fragment
\* is produced with that href.
C8_NoValueGivesHash ==
  pc = "return" /\ ~Truthy(resolved) =>
    /\ call.fn = "getActionHref" => ret = "#"
    /\ call.fn = "renderElement" => ret.ok /\ StartsWith(ret.v, "<a href=\"#\" style=\"")

C8_Witness ==
  /\ pc = "return"
  /\ call.fn = "renderElement"
  /\ Get(call.element, "actionType") = Str("email")
  /\ Get(call.element, "actionSource") = Str("social_github")
  /\ resolved = Str("")
  /\ ret.ok
  /\ StartsWith(ret.v, "<a href=\"#\" style=\"")

PhoneSources == {"profile_phone", "personal_phone", "business_phone"}
ProfileEmailSources == {"profile_email", "personal_email", "user_login_email", "business_email"}
SocialPlatforms == {"linkedin", "twitter", "facebook", "instagram", "youtube", "github"}

\* the link getActionHref returns for a value looked up: "#" for no value
linkOf(actionType, value) == IF Truthy(value) THEN wrapScheme(actionType, value.v) ELSE "#"

\* the value the claim gives the call, the email sources giving the first
\* non-empty of the profile fields emailFields; NoRet for a source the claim
\* does not speak of
lookedUp(emailFields) ==
  LET element == call.element
      source == Get(element, "actionSource")
      actionType == Get(element, "actionType")
      phone == firstNonEmpty(<<Get(call.business, "phone"), Get(call.profile, "phone")>>, Undefined)
  IN IF source.t = "undefined"
     THEN IF actionType \in {Str("call"), Str("sms")} THEN phone
          ELSE IF actionType = Str("email") THEN Get(call.profile, "email")
          ELSE IF actionType = Str("website") THEN Get(call.business, "website")
          ELSE Get(element, "customValue")
     ELSE IF source.v \in PhoneSources THEN phone
     ELSE IF source.v \in ProfileEmailSources
       THEN firstNonEmpty([n \in 1..Len(emailFields) |-> Get(call.profile, emailFields[n])],
                          Undefined)
     ELSE IF StartsWith(source.v, "social_") /\ SubSeq(source.v, 8, Len(source.v)) \in SocialPlatforms
       THEN Get(call.socialProfile, SubSeq(source.v, 8, Len(source.v)) \o "_url")
     ELSE IF source.v = "custom" THEN Get(element, "customValue")
     ELSE NoRet

\* the element of the call without its actionSource
withoutSource == [f \in DOMAIN call.element \ {"actionSource"} |-> call.element[f]]

\* for call and sms a phone source resolves what no source resolves
samePhone ==
  Get(call.element, "actionSource").t = "string" /\ Get(call.element, "actionSource").v \in PhoneSources
    /\ Get(call.element, "actionType") \in {Str("call"), Str("sms")} =>
      ret = getActionHref(withoutSource, call.profile, call.business, call.socialProfile)

\* C14 as stated: the phone sources give the business phone, then the profile
\* phone; the email sources give profile.email; social_<platform> gives that
\* platform's URL; custom gives element.customValue; with no actionSource, call
\* and sms give the business phone, then the profile phone, email gives
\* profile.email, website gives business.website and every other actionType
\* gives element.customValue; for call and sms a phone source and no source
\* resolve the same value.  The value shows in the link returned.
C14_LookupBySourceThenType ==
  pc = "return" /\ call.fn = "getActionHref" =>
    /\ lookedUp(<<"email">>) # NoRet =>
         ret = linkOf(Get(call.element, "actionType"), lookedUp(<<"email">>))
    /\ samePhone

\* C14, amended: as stated, but the email sources profile_email,
\* personal_email, user_login_email and business_email give
\* profile.work_email and, when that is empty, profile.email.
C14_EmailSourcesPreferWorkEmail ==
  pc = "return" /\ call.fn = "getActionHref" =>
    /\ lookedUp(<<"work_email", "email">>) # NoRet =>
         ret = linkOf(Get(call.element, "actionType"), lookedUp(<<"work_email", "email">>))
    /\ samePhone

C14_Witness ==
  /\ pc = "return"
  /\ call.fn = "getActionHref"
  /\ Get(call.element, "actionSource") = Str("profile_email")
  /\ Get(call.element, "actionType") = Str("email")
  /\ Get(call.profile, "work_email") = Str("jo@acme.com")
  /\ Get(call.profile, "email") = Str("jo@x.io")
  /\ ret = "mailto:jo@acme.com"


----------------------------------------------------------------------------
(* applyTemplate called on its own *)

TemplateStrings ==
  {Undefined, Str(""), Str("{{a}} and {{b}}"), Str("{{a}}{{a}}"), Str("  {{b}} "),
   Str("plain {text}"), Str("{{a}}-{{b}}-{{a}}\n")}

\* the object literals {a: .., b: ..} with either key left out
TemplateVariables ==
  {ea \o eb :
     ea \in {<<>>} \cup {<< <<"a", v>> >> : v \in {Str("X"), Str(""), Undefined, Str("$&"), Str("{{b}}")}},
     eb \in {<<>>} \cup {<< <<"b", v>> >> : v \in {Str("Y"), Undefined}}}

TemplateInit ==
  /\ pc = "call"
  /\ call \in {[fn |-> "applyTemplate", template |-> t, variables |-> v] :
                 t \in TemplateStrings, v \in TemplateVariables}
  /\ ret = NoRet
  /\ idle

CallApplyTemplate ==
  /\ pc = "call"
  /\ call.fn = "applyTemplate"
  /\ ret' = applyTemplate(call.template, call.variables)
  /\ pc' = "return"
  /\ UNCHANGED <<env, response, payload, idx, generated, errors, files, exitCode, call>>

TemplateNext == CallApplyTemplate

TemplateSpec == TemplateInit /\ [][TemplateNext]_vars

\* C9: applyTemplate replaces every occurrence of each {{name}} placeholder
\* with its mapped value, a placeholder whose name is absent from the mapping
\* with the empty string, and trims the result.
C9_EveryPlaceholderReplaced ==
  pc = "return" /\ call.fn = "applyTemplate" =>
    ret = IF Truthy(call.template) THEN Trim(interpolated(call.template.v, call.variables)) ELSE ""

----------------------------------------------------------------------------
(* build() *)

Responses ==
  {[t |-> "rejected"], [t |-> "response", ok |-> TRUE, status |-> 200],
   [t |-> "response", ok |-> FALSE, status |-> 500]}

goodTemplate ==
  templateOf(Arr(<<elementAt(1, [type |-> Str("name"), zIndex |-> Num(1)]),
                   elementAt(2, [type |-> Str("avatar")])>>))

CardDataChoices ==
  {Null,
   Obj([profile |-> Obj([first_name |-> Str("Al")])]),
   Obj([card |-> Obj([public_token |-> Str("tok1")]), profile |-> Obj([first_name |-> Str("Bo")])]),
   Obj([card |-> Obj([public_slug |-> Str("jo")]), profile |-> Obj([first_name |-> Str("jo")]),
        template |-> goodTemplate]),
   Obj([card |-> Obj([public_slug |-> Str("ann")]), business |-> Obj([name |-> Str("Acme")])]),
   Obj([card |-> Obj([public_slug |-> Str("max")]),
        template |-> templateOf(Arr(<<elementAt(1, [type |-> Str("text"), fontSize |-> Num(14)])>>))])}

CardLists ==
  UNION {{Arr(f) : f \in [1..n -> CardDataChoices]} : n \in 0..MaxCards}

Payloads ==
  {[t |-> "rejected"], Null}
    \cup {Obj(present([cards |-> c])) :
            c \in CardLists \cup {Undefined, Null, Obj([message |-> Str("no cards")]), Str("[]")}}
    \cup {Obj(present([cards |-> c, error |-> e])) :
            c \in {Undefined, Arr(<<>>), Arr(<<Obj([card |-> Obj([public_slug |-> Str("jo")])])>>)},
            e \in {Str(""), Str("db down")}}

Init ==
  /\ pc = "load"
  /\ env \in {Undefined, Str("https://edge.example/functions/cards")}
  /\ response = NoResponse
  /\ payload = Undefined
  /\ idx = 0
  /\ generated = 0
  /\ errors = 0
  /\ files = {}
  /\ exitCode = -1
  /\ call = NoCall
  /\ ret = NoRet

\* lines 281-289: fetch rejects, or resolves to a response whose ok is tested
Fetch ==
  /\ pc = "fetch"
  /\ \E r \in Responses :
       /\ response' = r
       /\ pc' = IF r.t = "rejected" \/ ~r.ok THEN "catch" ELSE "json"
  /\ UNCHANGED <<env, payload, idx, generated, errors, files, exitCode, call, ret>>

\* lines 291-298: response.json() rejects or resolves; the error field is
\* tested and the iteration of cards begins
ReadPayload ==
  /\ pc = "json"
  /\ \E p \in Payloads :
       /\ payload' = p
       /\ pc' = IF p.t \in {"rejected", "null"} THEN "catch"
                ELSE IF Truthy(Get(p, "error")) THEN "catch"
                ELSE IF ~iterate(Get(p, "cards")).ok THEN "catch"
                ELSE "loop"
  /\ idx' = 0
  /\ generated' = 0
  /\ errors' = 0
  /\ UNCHANGED <<env, response, files, exitCode, call, ret>>

\* lines 298-311: one iteration of the loop
ProcessCard ==
  /\ pc = "loop"
  /\ idx < Len(cardList)
  /\ \E o \in {processCard(cardList[idx + 1])} :
       /\ generated' = IF o.outcome = "generated" THEN generated + 1 ELSE generated
       /\ errors' = IF o.outcome = "error" THEN errors + 1 ELSE errors
       /\ files' = IF o.outcome = "generated" THEN files \cup {o.file} ELSE files
       /\ call' = IF o.r = NoRet THEN call
                  ELSE [fn |-> "generateCardHTML", cardData |-> cardList[idx + 1]]
       /\ ret' = IF o.r = NoRet THEN ret ELSE o.r
  /\ idx' = idx + 1
  /\ UNCHANGED <<pc, env, response, payload, exitCode>>

\* lines 313-320: the loop is over; the index page, the 404 page, the summary
Finish ==
  /\ pc = "loop"
  /\ idx = Len(cardList)
  /\ files' = files \cup {"index.html", "404.html"}
  /\ pc' = "done"
  /\ exitCode' = 0
  /\ UNCHANGED <<env, response, payload, idx, generated, errors, call, ret>>

\* line 323: build().catch(err => { ...; process.exit(1); })
Catch ==
  /\ pc = "catch"
  /\ exitCode' = 1
  /\ pc' = "exited"
  /\ UNCHANGED <<env, response, payload, idx, generated, errors, files, call, ret>>

Next == Load \/ Fetch \/ ReadPayload \/ ProcessCard \/ Finish \/ Catch

Spec == Init /\ [][Next]_vars


----------------------------------------------------------------------------
(* Properties of build(), under Spec *)

\* the card record has no public slug: the record, or its card, may be absent
noSlug(cardData) ==
  cardData.t \notin {"undefined", "null"} /\ ~Truthy(Get(Get(cardData, "card"), "public_slug"))

\* generation fails for the card: the record is null, or generateCardHTML throws
generationFails(cardData) ==
  \/ cardData.t \in {"undefined", "null"}
  \/ Truthy(Get(Get(cardData, "card"), "public_slug")) /\ ~generateCardHTML(cardData).ok

\* how many of the first n elements of cards satisfy Test
countCards(n, Test(_)) == Cardinality({i \in 1..n : Test(cardList[i])})

generatedFiles(n) ==
  {ToStr(Get(Get(cardList[i], "card"), "public_slug")) \o ".html" :
     i \in {j \in 1..n : ~noSlug(cardList[j]) /\ ~generationFails(cardList[j])}}

\* C5 as stated: every card whose generation fails, a card without a public
\* slug included, is counted in the error count of the summary.
C5_NoSlugCountedAsError ==
  pc = "done" =>
    errors = countCards(Len(cardList), LAMBDA cd : generationFails(cd) \/ noSlug(cd))

\* C5, amended: a card whose generation throws is skipped and counted in the
\* error count; a card without a public slug is skipped and counted neither as
\* generated nor as an error; the loop goes on over every remaining card, and
\* the build completes with the index and 404 pages written.
C5_FailedCardsCountedLoopGoesOn ==
  /\ pc \in {"loop", "done"} =>
       /\ idx <= Len(cardList)
       /\ errors = countCards(idx, generationFails)
       /\ generated = idx - countCards(idx, generationFails) - countCards(idx, noSlug)
       /\ exitCode # 1
  /\ pc = "loop" => files = generatedFiles(idx)
  /\ pc = "done" =>
       /\ idx = Len(cardList)
       /\ files = generatedFiles(idx) \cup {"index.html", "404.html"}
       /\ exitCode = 0

C5_Witness ==
  /\ pc = "done"
  /\ Len(cardList) = 3
  /\ generationFails(cardList[1])
  /\ noSlug(cardList[2])
  /\ ~noSlug(cardList[3]) /\ ~generationFails(cardList[3])
  /\ errors = 1
  /\ generated = 1
  /\ files = {"jo.html", "index.html", "404.html"}

\* the payload has been read: build is past `await response.json()`
payloadRead == pc \in {"loop", "done"} \/ (pc \in {"catch", "exited"} /\ payload # Undefined)

\* C6 as stated: a card list that is not an array, absent and null included,
\* makes build fail.
C6_NonArrayCardListFails ==
  payloadRead /\ Get(payload, "cards").t # "array" => pc \in {"catch", "exited"}

\* the fetch failed: it rejected, or returned a non-success status
fetchFailed == response.t = "rejected" \/ (response.t = "response" /\ ~response.ok)

\* the payload cannot be used: reading it failed, or it carries a non-empty
\* error field, or its card list is a true value that cannot be iterated
payloadFailed ==
  /\ payloadRead
  /\ \/ payload.t \in {"rejected", "null"}
     \/ Truthy(Get(payload, "error"))
     \/ Get(payload, "cards").t \notin {"undefined", "null", "array", "string"}

\* C6, amended: when the fetch rejects or returns a non-success status, or the
\* payload cannot be read or carries a non-empty error field, or its card list
\* is a true value that is not iterable, build fails: the process exits with
\* code 1 and no card file, index page or 404 page is written.  An absent or
\* null card list is an empty list, and build completes.
C6_FetchOrPayloadFailureAborts ==
  /\ fetchFailed \/ payloadFailed =>
       /\ pc \in {"catch", "exited"}
       /\ files = {}
       /\ pc = "exited" => exitCode = 1
  /\ pc \in {"catch", "exited"} /\ Truthy(env) => fetchFailed \/ payloadFailed
  /\ pc = "done" /\ ~Truthy(Get(payload, "cards")) => files = {"index.html", "404.html"}

C6_Witness ==
  /\ pc = "exited"
  /\ exitCode = 1
  /\ response.t = "response"
  /\ response.ok
  /\ Get(payload, "cards").t = "object"
  /\ ~Truthy(Get(payload, "error"))
  /\ files = {}


----------------------------------------------------------------------------
(* parseFontSize called on its own *)

FontSizeHeads == {"", "0", "7", "14", "007", "100", "-5", " 9", "x", "2", "3", "0x1A"}
FontSizeTails == {"", "px", "xl", "em", ".5", "abc"}

\* the fontSize values of an element: absent, tokens of the table, pixel
\* tokens, numbers in a string, other strings, and JSON values that are not
\* strings
FontSizes ==
  {Undefined, Null, Num(0), Num(14), Bool(TRUE)}
    \cup {Str(h \o t) : h \in FontSizeHeads, t \in FontSizeTails}
    \cup {Str(k) : k \in {"xs", "sm", "md", "lg", "large", "constructor", "toString"}}

FontSizeInit ==
  /\ pc = "call"
  /\ call \in {[fn |-> "parseFontSize", size |-> s] : s \in FontSizes}
  /\ ret = NoRet
  /\ idle

CallParseFontSize ==
  /\ pc = "call"
  /\ call.fn = "parseFontSize"
  /\ ret' = parseFontSize(call.size)
  /\ pc' = "return"
  /\ UNCHANGED <<env, response, payload, idx, generated, errors, files, exitCode, call>>

FontSizeNext == CallParseFontSize

FontSizeSpec == FontSizeInit /\ [][FontSizeNext]_vars

\* the table of the font size tokens
tokenPx ==
  [xs |-> 12, sm |-> 14, md |-> 16, lg |-> 18, xl |-> 20] @@ ("2xl" :> 24) @@ ("3xl" :> 32)

allDigits(s) == s # "" /\ \A i \in 1..Len(s) : CharAt(s, i) \in Digits
noDigit(s) == \A i \in 1..Len(s) : CharAt(s, i) \notin Digits

\* C12: parseFontSize returns a value for every size; xs, sm, md, lg, xl, 2xl
\* and 3xl give 12, 14, 16, 18, 20, 24 and 32 px, an absent size gives 16px, a
\* token ending in "px" is returned unchanged, a token of decimal digits,
\* "0" included, gives its number in px, and a token with no digit that is not
\* in the table gives 16px.
C12_ParseFontSizeTotalAndExact ==
  pc = "return" /\ call.fn = "parseFontSize" =>
    /\ ret.ok
    /\ LET size == call.size
       IN IF size.t \in {"undefined", "null"} THEN ret.v = "16px"
          ELSE IF size.t # "string" THEN TRUE
          ELSE IF size.v \in DOMAIN tokenPx THEN ret.v = ToString(tokenPx[size.v]) \o "px"
          ELSE IF EndsWith(size.v, "px") THEN ret.v = size.v
          ELSE IF allDigits(size.v) THEN ret.v = ToString(leadingDigits(size.v, 0)) \o "px"
          ELSE IF noDigit(size.v) THEN ret.v = "16px"
          ELSE TRUE

----------------------------------------------------------------------------
(* generateCardHTML called again and again on the requests of one card list *)

MaxCalls == 3

\* requests with a layout that is not in stacking order, with a share title
\* template, with no layout, with a layout that makes the call throw, and
\* with no card
RepeatRequests ==
  {layoutRequest(sampleLayout),
   Obj([card |-> Obj([public_token |-> Str("tok1"), og_title |-> Str("{{full_name}} at {{company_name}}")]),
        profile |-> Obj([first_name |-> Str("Ann")]), business |-> Obj([name |-> Str("Acme")]),
        template |-> goodTemplate]),
   Obj([card |-> Obj([public_slug |-> Str("jo")])]),
   layoutRequest(Arr(<<elementAt(1, [type |-> Str("text"), fontSize |-> Num(14)])>>)),
   Obj([profile |-> Obj([first_name |-> Str("Al")])])}

\* the card list holds two request objects, which may be equal; files is here
\* the record of the calls made: the number of the call, the position of the
\* request in the list, the request passed and the result
RepeatInit ==
  /\ pc = "loop"
  /\ env = Undefined
  /\ response = NoResponse
  /\ payload \in {Obj([cards |-> Arr(<<a, b>>)]) : a, b \in RepeatRequests}
  /\ idx = 0
  /\ generated = 0
  /\ errors = 0
  /\ files = {}
  /\ exitCode = -1
  /\ call = NoCall
  /\ ret = NoRet

\* one call of generateCardHTML on a request of the list, in any order
RenderAgain ==
  /\ pc = "loop"
  /\ idx < MaxCalls
  /\ \E i \in 1..Len(payload.cards.v) :
       \E cardData \in {payload.cards.v[i]} :
         /\ call' = [fn |-> "generateCardHTML", cardData |-> cardData]
         /\ ret' = generateCardHTML(cardData)
         /\ payload' = [payload EXCEPT !.cards.v[i] = requestAfter(cardData)]
         /\ files' = files \cup {[n |-> idx + 1, i |-> i, request |-> cardData, out |-> ret']}
  /\ idx' = idx + 1
  /\ UNCHANGED <<pc, env, response, generated, errors, exitCode>>

RepeatNext == RenderAgain

RepeatSpec == RepeatInit /\ [][RepeatNext]_vars

====
